---- MODULE Spec2Model ----
(***************************************************************************)
(* Trade workflow of sh_trade_backend (src/provider/trade/basic.py and     *)
(* src/endpoints/trade.py) over the TradeRecord / Item tables of           *)
(* src/schemes/sql.py.                                                     *)
(*                                                                         *)
(* Every endpoint is a coroutine working on its own database session: it   *)
(* loads its rows and evaluates its guards (reads of one snapshot), and    *)
(* only later flushes and commits.  Nothing is locked, so other requests   *)
(* run between the two.  A request therefore runs either without           *)
(* interruption (one step) or is suspended between its check and its       *)
(* commit while other requests run (two steps).  The reads of two          *)
(* requests commute, so every interleaving of n requests is one in which   *)
(* at most n - 1 of them are suspended: MaxInFlight bounds that number.    *)
(*                                                                         *)
(* Spec suspends start and accept requests; SpecCancelRace suspends cancel *)
(* requests.  In both, every request also runs without interruption.       *)
(***************************************************************************)
EXTENDS Integers, Sequences, FiniteSets, TLC

\* ---------------------------------------------------------------- bounds
MaxInFlight == 1
MaxTrades == 2
MaxTime == 1

\* ------------------------------------------------------------- constants
MAX_TRANSACTION_PER_BUYER == 1

Slots == 1..MaxInFlight
UserIds == {1, 2, 3}
ItemIds == {1, 2, 3}
\* Item.seller: item 1 belongs to user 1, item 2 to user 3, item 3 to user 2
ItemSeller(item_id) == IF item_id = 1 THEN 1 ELSE IF item_id = 2 THEN 3 ELSE 2
\* the values get_current_timestamp_ms() returns
Times == 1..MaxTime

ItemState == {"hide", "sold", "valid"}
TradeState == {"pending", "processing", "success", "cancelled"}
TradeCancelReason ==
    {"seller_rejected", "seller_accept_timeout", "cancelled_by_buyer",
     "cancelled_by_seller", "seller_confirm_timeout"}

\* Python None for an enum column, and NULL for a timestamp column
None == "None"
NullTime == 0
OK == "ok"

VARIABLES
    trades,         \* table trade: sequence of rows, trade_id = index
    item_state,     \* Item.state per item_id
    contact_count,  \* number of external contact infos per user_id
    req,            \* the requests suspended between their check and their commit
    response,       \* the last response: the operation and OK or the error raised
    rbac,           \* the RBACManager: its configuration and its compilation
    cb              \* the CallbackManager of NotificationSender and the call on it

vars == <<trades, item_state, contact_count, req, response, rbac, cb>>

TradeIds == DOMAIN trades

\* a TradeRecord that was not loaded
NoTrade ==
    [buyer_id |-> 0, item_id |-> 0, state |-> None, created_time |-> NullTime,
     accepted_time |-> NullTime, confirmed_time |-> NullTime,
     completed_time |-> NullTime, cancel_reason |-> None]

\* a slot that holds no suspended request
Idle == [op |-> "idle", user |-> 0, target |-> 0, loaded |-> NoTrade, reason |-> None]

\* no response: the last step answered no request
NoResponse == [op |-> "none", err |-> OK]

\* no CallbackManager is looked at
NoCallbackManager == [op |-> "none"]

\* no RBACManager is looked at
NoManager ==
    [pc |-> "none", roles |-> {}, role_inheritance |-> <<>>,
     role_permissions |-> <<>>, order |-> <<>>,
     compiled |-> <<>>, mutated |-> FALSE, iteration_count |-> 0, index |-> 0]

\* variant of NewTradeRecord: the new record is stamped as accepted
NewTradeRecord_accepted(buyer, item_id, now) ==
    [buyer_id |-> buyer, item_id |-> item_id, state |-> "pending",
     created_time |-> now, accepted_time |-> now,
     confirmed_time |-> NullTime, completed_time |-> NullTime,
     cancel_reason |-> None]

\* orm.TradeRecord(buyer=user, item=item) with the column defaults
NewTradeRecord(buyer, item_id, now) ==
    [buyer_id |-> buyer, item_id |-> item_id, state |-> "pending",
     created_time |-> now, accepted_time |-> NullTime,
     confirmed_time |-> NullTime, completed_time |-> NullTime,
     cancel_reason |-> None]

\* one column of the UPDATE a flush emits: SQLAlchemy writes a column only when
\* the attribute differs from the value the session loaded
Flush(row, loaded, modified) ==
    [c \in DOMAIN row |-> IF modified[c] # loaded[c] THEN modified[c] ELSE row[c]]

\* ------------------------------------------------------------------ reads
\* Item.processing_trade: the trades of the item whose state is processing
processing_trade(item_id) ==
    {t \in TradeIds : trades[t].item_id = item_id /\ trades[t].state = "processing"}

\* the processing buys of a user
processing_buys(user) ==
    {t \in TradeIds : trades[t].buyer_id = user /\ trades[t].state = "processing"}

\* the pending or processing trades of (buyer, item)
dup_transactions(buyer, item_id) ==
    {t \in TradeIds : /\ trades[t].item_id = item_id
                      /\ trades[t].state \in {"processing", "pending"}
                      /\ trades[t].buyer_id = buyer}

get_user_contact_info_count(user) == contact_count[user]

\* ----------------------------------------------------------------- guards
\* each guard yields OK or the name of the error it raises
\* variant of check_item_validity_to_start_transaction: a pending trade of the
\* item blocks as a processing one does
check_item_validity_any_open_trade(item_id) ==
    IF item_state[item_id] # "valid" THEN "invalid_item"
    ELSE IF \E t \in TradeIds : /\ trades[t].item_id = item_id
                                /\ trades[t].state \in {"pending", "processing"}
         THEN "processing_transaction_exists"
    ELSE OK

check_item_validity_to_start_transaction(item_id) ==
    IF item_state[item_id] # "valid" THEN "invalid_item"
    ELSE IF processing_trade(item_id) # {} THEN "processing_transaction_exists"
    ELSE OK

\* variant of check_buyer_is_not_owner_of_item: the owner is let through
check_buyer_is_not_owner_skipped(buyer, item_id) == OK

check_buyer_is_not_owner_of_item(buyer, item_id) ==
    IF ItemSeller(item_id) = buyer THEN "identical_seller_buyer" ELSE OK

\* variant of check_no_existing_processing_transaction: only processing trades
\* of (buyer, item) count
check_no_existing_processing_only(buyer, item_id) ==
    IF \E t \in TradeIds : /\ trades[t].item_id = item_id
                           /\ trades[t].state = "processing"
                           /\ trades[t].buyer_id = buyer
    THEN "duplicated_transaction" ELSE OK

check_no_existing_processing_transaction(buyer, item_id) ==
    IF Cardinality(dup_transactions(buyer, item_id)) > 0
    THEN "duplicated_transaction" ELSE OK

check_user_validity_to_start_transaction(user) ==
    IF get_user_contact_info_count(user) = 0 THEN "no_valid_contact_info"
    ELSE IF Cardinality(processing_buys(user)) >= MAX_TRANSACTION_PER_BUYER
         THEN "processing_transaction_limit_exceeded"
    ELSE OK

\* the first error of a sequence of guard results
FirstError(results) ==
    IF \E k \in DOMAIN results : results[k] # OK
    THEN results[CHOOSE k \in DOMAIN results :
                    /\ results[k] # OK
                    /\ \A j \in DOMAIN results : j < k => results[j] = OK]
    ELSE OK

\* variant of check_validity_to_start_transaction: the buyer is checked before
\* the item
check_validity_to_start_buyer_first(user, item_id) ==
    FirstError(<<check_user_validity_to_start_transaction(user),
                 check_item_validity_to_start_transaction(item_id),
                 check_buyer_is_not_owner_of_item(user, item_id),
                 check_no_existing_processing_transaction(user, item_id)>>)

check_validity_to_start_transaction(user, item_id) ==
    FirstError(<<check_item_validity_to_start_transaction(item_id),
                 check_user_validity_to_start_transaction(user),
                 check_buyer_is_not_owner_of_item(user, item_id),
                 check_no_existing_processing_transaction(user, item_id)>>)

\* variant of check_validity_to_accept_transaction: the state of the trade is
\* checked before the item
check_validity_to_accept_state_first(user, trade) ==
    IF user # ItemSeller(trade.item_id) THEN "not_seller"
    ELSE IF trade.state # "pending" THEN "transaction_not_pending"
    ELSE check_item_validity_to_start_transaction(trade.item_id)

\* trade is the loaded TradeRecord; the item guard reads the table
check_validity_to_accept_transaction(user, trade) ==
    IF user # ItemSeller(trade.item_id) THEN "not_seller"
    ELSE IF check_item_validity_to_start_transaction(trade.item_id) # OK
         THEN check_item_validity_to_start_transaction(trade.item_id)
    ELSE IF trade.state # "pending" THEN "transaction_not_pending"
    ELSE OK

\* -------------------------------------------------------------- mutations
\* the state check accpet_transaction makes on the loaded record
accpet_transaction_check(trade) ==
    IF trade.state # "pending" THEN "transaction_not_pending" ELSE OK

\* variant of accpet_transaction: accepted_time is not stamped
accpet_transaction_no_timestamp(trade, now) ==
    [trade EXCEPT !.state = "processing"]

\* variant of accpet_transaction: the accepted trade is completed at once
accpet_transaction_completes(trade, now) ==
    [trade EXCEPT !.state = "success", !.accepted_time = now]

\* accpet_transaction on the loaded record: the record it leaves in the session
accpet_transaction(trade, now) ==
    [trade EXCEPT !.state = "processing", !.accepted_time = now]

\* variant of determine_cancel_reason: a buyer cannot withdraw a pending trade
determine_cancel_reason_no_withdraw(user, trade, raise_if_uncancellable) ==
    LET user_is_seller == user = ItemSeller(trade.item_id)
        user_is_buyer == trade.buyer_id = user
    IN  IF raise_if_uncancellable /\ trade.confirmed_time # NullTime
        THEN "could_not_cancel_confirmed_transaction"
        ELSE IF trade.state = "pending" /\ user_is_seller THEN "seller_rejected"
        ELSE IF trade.state = "processing" /\ user_is_seller THEN "cancelled_by_seller"
        ELSE IF trade.state = "processing" /\ user_is_buyer THEN "cancelled_by_buyer"
        ELSE "RuntimeError"

\* variant of determine_cancel_reason: the confirmation is never looked at
determine_cancel_reason_unenforced(user, trade, raise_if_uncancellable) ==
    LET user_is_seller == user = ItemSeller(trade.item_id)
        user_is_buyer == trade.buyer_id = user
    IN  IF trade.state = "pending" /\ user_is_seller THEN "seller_rejected"
        ELSE IF trade.state = "pending" /\ user_is_buyer THEN "cancelled_by_buyer"
        ELSE IF trade.state = "processing" /\ user_is_seller THEN "cancelled_by_seller"
        ELSE IF trade.state = "processing" /\ user_is_buyer THEN "cancelled_by_buyer"
        ELSE "RuntimeError"

\* the result of determine_cancel_reason: a reason or the error it raises
determine_cancel_reason(user, trade, raise_if_uncancellable) ==
    LET user_is_seller == user = ItemSeller(trade.item_id)
        user_is_buyer == trade.buyer_id = user
    IN  IF raise_if_uncancellable /\ trade.confirmed_time # NullTime
        THEN "could_not_cancel_confirmed_transaction"
        ELSE IF trade.state = "pending" /\ user_is_seller THEN "seller_rejected"
        ELSE IF trade.state = "pending" /\ user_is_buyer THEN "cancelled_by_buyer"
        ELSE IF trade.state = "processing" /\ user_is_seller THEN "cancelled_by_seller"
        ELSE IF trade.state = "processing" /\ user_is_buyer THEN "cancelled_by_buyer"
        ELSE "RuntimeError"

\* variant of cancel_transaction: the cancelled record loses its accepted_time
cancel_transaction_clears_accepted(user, trade, cancel_reason) ==
    [trade EXCEPT !.state = "cancelled",
                  !.accepted_time = NullTime,
                  !.cancel_reason = IF cancel_reason # None THEN cancel_reason ELSE @]

\* cancel_transaction on the loaded record: the record it leaves in the session
cancel_transaction(user, trade, cancel_reason) ==
    LET determined == determine_cancel_reason(user, trade, FALSE)
        reason == IF cancel_reason # None THEN cancel_reason
                  ELSE IF determined = "RuntimeError" THEN None
                  ELSE determined
    IN  [trade EXCEPT !.state = "cancelled",
                      !.cancel_reason = IF reason # None THEN reason ELSE @]

\* ---------------------------------------------------------------- actions
SuspendedStarts == Cardinality({s \in Slots : req[s].op = "start"})

\* the request passed its checks and is suspended before its commit
Suspend(s, op, user, target, loaded, reason) ==
    /\ req[s] = Idle
    /\ req' = [req EXCEPT ![s] = [op |-> op, user |-> user, target |-> target,
                                  loaded |-> loaded, reason |-> reason]]
    /\ response' = NoResponse

\* a request is answered: err is OK or the name of the error raised
Respond(op, err) == response' = [op |-> op, err |-> err]

\* start_transaction(skip_check=True): the table after the new record is added
start_transaction(user, item_id, now) ==
    Append(trades, NewTradeRecord(user, item_id, now))

\* POST /start, not interrupted
StartRequest(user, item_id, now) ==
    /\ LET err == check_validity_to_start_transaction(user, item_id)
       IN  /\ err = OK => Len(trades) + SuspendedStarts < MaxTrades
           /\ trades' = IF err = OK THEN start_transaction(user, item_id, now) ELSE trades
           /\ Respond("start", err)
    /\ UNCHANGED <<cb, item_state, contact_count, rbac, req>>

\* POST /start up to the end of check_validity_to_start_transaction, all passed
StartCheck(s, user, item_id) ==
    /\ Len(trades) + SuspendedStarts < MaxTrades
    /\ check_validity_to_start_transaction(user, item_id) = OK
    /\ Suspend(s, "start", user, item_id, NoTrade, None)
    /\ UNCHANGED <<cb, trades, item_state, contact_count, rbac>>

\* POST /start from start_transaction(skip_check=True) on
StartCommit(s, now) ==
    /\ req[s].op = "start"
    /\ trades' = start_transaction(req[s].user, req[s].target, now)
    /\ req' = [req EXCEPT ![s] = Idle]
    /\ Respond("start", OK)
    /\ UNCHANGED <<cb, item_state, contact_count, rbac>>

\* get_trade_by_id: the row of an existing trade
get_trade_by_id(trade_id) == trades[trade_id]

\* accpet_transaction of a request that loaded `loaded`: the error it raises,
\* or OK and the table after the flush
AcceptResult(trade_id, loaded, now) ==
    LET err == accpet_transaction_check(loaded)
    IN  [err |-> err,
         trades |-> IF err = OK
                    THEN [trades EXCEPT ![trade_id] =
                             Flush(@, loaded, accpet_transaction(loaded, now))]
                    ELSE trades]

\* GET /accept, not interrupted
AcceptRequest(user, trade_id, now) ==
    /\ trade_id \in TradeIds
    /\ LET trade == get_trade_by_id(trade_id)
           err == check_validity_to_accept_transaction(user, trade)
           res == AcceptResult(trade_id, trade, now)
       IN  IF err = OK
           THEN trades' = res.trades /\ Respond("accept", res.err)
           ELSE UNCHANGED trades /\ Respond("accept", err)
    /\ UNCHANGED <<cb, item_state, contact_count, rbac, req>>

\* GET /accept up to the end of check_validity_to_accept_transaction, all passed
AcceptCheck(s, user, trade_id) ==
    /\ trade_id \in TradeIds
    /\ check_validity_to_accept_transaction(user, get_trade_by_id(trade_id)) = OK
    /\ Suspend(s, "accept", user, trade_id, get_trade_by_id(trade_id), None)
    /\ UNCHANGED <<cb, trades, item_state, contact_count, rbac>>

\* GET /accept from accpet_transaction on
AcceptCommit(s, now) ==
    /\ req[s].op = "accept"
    /\ LET res == AcceptResult(req[s].target, req[s].loaded, now)
       IN  trades' = res.trades /\ Respond("accept", res.err)
    /\ req' = [req EXCEPT ![s] = Idle]
    /\ UNCHANGED <<cb, item_state, contact_count, rbac>>

\* cancel_transaction of a request that loaded `loaded`: the table after the flush
CancelResult(user, trade_id, loaded, cancel_reason) ==
    [trades EXCEPT ![trade_id] =
        Flush(@, loaded, cancel_transaction(user, loaded, cancel_reason))]

\* POST /cancel, not interrupted
CancelRequest(user, trade_id) ==
    /\ trade_id \in TradeIds
    /\ LET trade == get_trade_by_id(trade_id)
           reason == determine_cancel_reason(user, trade, FALSE)
       IN  IF reason \in TradeCancelReason
           THEN /\ trades' = CancelResult(user, trade_id, trade, reason)
                /\ Respond("cancel", OK)
           ELSE /\ UNCHANGED trades
                /\ Respond("cancel", reason)
    /\ UNCHANGED <<cb, item_state, contact_count, rbac, req>>

\* POST /cancel up to the end of determine_cancel_reason, a reason determined
CancelCheck(s, user, trade_id) ==
    /\ trade_id \in TradeIds
    /\ determine_cancel_reason(user, get_trade_by_id(trade_id), FALSE) \in TradeCancelReason
    /\ Suspend(s, "cancel", user, trade_id, get_trade_by_id(trade_id),
               determine_cancel_reason(user, get_trade_by_id(trade_id), FALSE))
    /\ UNCHANGED <<cb, trades, item_state, contact_count, rbac>>

\* POST /cancel from cancel_transaction on
CancelCommit(s) ==
    /\ req[s].op = "cancel"
    /\ trades' = CancelResult(req[s].user, req[s].target, req[s].loaded, req[s].reason)
    /\ req' = [req EXCEPT ![s] = Idle]
    /\ Respond("cancel", OK)
    /\ UNCHANGED <<cb, item_state, contact_count, rbac>>

\* cancel_transaction(ss, user, trade) called with no explicit reason
CancelTransaction(user, trade_id) ==
    /\ trade_id \in TradeIds
    /\ trades' = CancelResult(user, trade_id, get_trade_by_id(trade_id), None)
    /\ Respond("cancel_transaction", OK)
    /\ UNCHANGED <<cb, item_state, contact_count, rbac, req>>

\* determine_cancel_reason(ss, user, trade, raise_if_uncancellable) called on a
\* loaded trade: the answer is the reason returned or the error raised
DetermineCancelReason(user, trade_id, raise_if_uncancellable) ==
    /\ trade_id \in TradeIds
    /\ Respond("determine_cancel_reason",
               determine_cancel_reason(user, get_trade_by_id(trade_id),
                                       raise_if_uncancellable))
    /\ UNCHANGED <<cb, trades, item_state, contact_count, rbac, req>>

\* the guards of confirm_transaction
check_validity_to_confirm_transaction(user, trade) ==
    IF user # trade.buyer_id /\ user # ItemSeller(trade.item_id)
    THEN "not_seller_or_buyer"
    ELSE IF trade.state # "processing" THEN "trade_not_processing"
    ELSE OK

\* confirm_transaction on a record: the confirmation is recorded and, when it
\* completes the trade under the rule in force, the trade succeeds
confirm_transaction(trade, complete, now) ==
    [trade EXCEPT !.confirmed_time = IF @ = NullTime THEN now ELSE @,
                  !.state = IF complete THEN "success" ELSE @,
                  !.completed_time = IF complete THEN now ELSE @]

\* GET /confirm
ConfirmRequest(user, trade_id, complete, now) ==
    /\ trade_id \in TradeIds
    /\ LET trade == get_trade_by_id(trade_id)
           err == check_validity_to_confirm_transaction(user, trade)
       IN  IF err = OK
           THEN /\ trades' = [trades EXCEPT ![trade_id] =
                                 confirm_transaction(@, complete, now)]
                /\ Respond("confirm", OK)
           ELSE /\ UNCHANGED trades
                /\ Respond("confirm", err)
    /\ UNCHANGED <<cb, item_state, contact_count, rbac, req>>

Init ==
    /\ trades = <<>>
    /\ item_state = [i \in ItemIds |-> IF i = 3 THEN "hide" ELSE "valid"]
    /\ contact_count = [u \in UserIds |-> IF u = 1 THEN 0 ELSE 1]
    /\ req = [s \in Slots |-> Idle]
    /\ response = NoResponse
    /\ cb = NoCallbackManager
    /\ rbac = NoManager

Next ==
    \/ \E user \in UserIds, item_id \in ItemIds, now \in Times :
          StartRequest(user, item_id, now)
    \/ \E s \in Slots, user \in UserIds, item_id \in ItemIds :
          StartCheck(s, user, item_id)
    \/ \E s \in Slots, now \in Times : StartCommit(s, now)
    \/ \E user \in UserIds, trade_id \in 1..MaxTrades, now \in Times :
          AcceptRequest(user, trade_id, now)
    \/ \E s \in Slots, user \in UserIds, trade_id \in 1..MaxTrades :
          AcceptCheck(s, user, trade_id)
    \/ \E s \in Slots, now \in Times : AcceptCommit(s, now)
    \/ \E user \in UserIds, trade_id \in 1..MaxTrades : CancelRequest(user, trade_id)
    \/ \E user \in UserIds, trade_id \in 1..MaxTrades : CancelTransaction(user, trade_id)
    \/ \E user \in UserIds, trade_id \in 1..MaxTrades, complete \in BOOLEAN,
          now \in Times :
          ConfirmRequest(user, trade_id, complete, now)

Spec == Init /\ [][Next]_vars

\* the endpoints with the cancel requests suspended between check and commit
NextCancelRace ==
    \/ \E user \in UserIds, item_id \in ItemIds, now \in Times :
          StartRequest(user, item_id, now)
    \/ \E user \in UserIds, trade_id \in 1..MaxTrades, now \in Times :
          AcceptRequest(user, trade_id, now)
    \/ \E user \in UserIds, trade_id \in 1..MaxTrades : CancelRequest(user, trade_id)
    \/ \E s \in Slots, user \in UserIds, trade_id \in 1..MaxTrades :
          CancelCheck(s, user, trade_id)
    \/ \E s \in Slots : CancelCommit(s)
    \/ \E user \in UserIds, trade_id \in 1..MaxTrades, complete \in BOOLEAN,
          now \in Times :
          ConfirmRequest(user, trade_id, complete, now)
    \/ \E user \in UserIds, trade_id \in 1..MaxTrades,
          raise_if_uncancellable \in BOOLEAN :
          DetermineCancelReason(user, trade_id, raise_if_uncancellable)

SpecCancelRace == Init /\ [][NextCancelRace]_vars

\* ------------------------------------------------------------ RBACManager
\* src/tools/rbac_manager.py.  A dict is a function whose domain is its keys.
MaxRoles == 3
MaxIteration == 50

RoleNames == 1..MaxRoles
\* the permission p is the one granted directly to role p
Permissions == RoleNames

\* dict.get(key, default)
Get(d, k, default) == IF k \in DOMAIN d THEN d[k] ELSE default

\* dict.setdefault(key, default): the dict afterwards
SetDefault(d, k, default) ==
    IF k \in DOMAIN d THEN d
    ELSE d @@ (k :> default)

\* RBACManager.__init__ up to the first test of the while loop; order is the
\* order in which the set self.roles is iterated, index the position of the
\* for loop in it (0: at the test of the while loop)
RBACManager(roles, role_inheritance, role_permissions, order) ==
    [pc |-> "compiling", roles |-> roles, role_inheritance |-> role_inheritance,
     role_permissions |-> role_permissions, order |-> order,
     compiled |-> role_permissions, mutated |-> TRUE, iteration_count |-> 0,
     index |-> 0]

\* variant of propagate_role: only the direct grants of the inherited roles are
\* propagated
propagate_role_direct(m, st, role) ==
    LET c0 == SetDefault(st.compiled, role, {})
        prev_len == Cardinality(c0[role])
        updated == c0[role] \cup
                   UNION {Get(m.role_permissions, inherited_role, {}) :
                             inherited_role \in Get(m.role_inheritance, role, {})}
    IN  [compiled |-> [c0 EXCEPT ![role] = updated],
         mutated |-> st.mutated \/ Cardinality(updated) > prev_len]

\* the body of `for role in self.roles` for one role; st is the compiled dict
\* and the mutated flag
propagate_role(m, st, role) ==
    LET c0 == SetDefault(st.compiled, role, {})
        prev_len == Cardinality(c0[role])
        updated == c0[role] \cup
                   UNION {Get(c0, inherited_role, {}) :
                             inherited_role \in Get(m.role_inheritance, role, {})}
    IN  [compiled |-> [c0 EXCEPT ![role] = updated],
         mutated |-> st.mutated \/ Cardinality(updated) > prev_len]

\* one run of the body of `for role in self.roles`, for the role at m.index
for_body(m) ==
    LET st == propagate_role(m, [compiled |-> m.compiled, mutated |-> m.mutated],
                             m.order[m.index])
    IN  [m EXCEPT !.compiled = st.compiled, !.mutated = st.mutated,
                  !.index = IF m.index < Len(m.order) THEN m.index + 1 ELSE 0]

\* variant of while_test: no iteration limit
while_test_unbounded(m) ==
    IF ~m.mutated THEN [m EXCEPT !.pc = "compiled"]
    ELSE [m EXCEPT !.iteration_count = @ + 1, !.mutated = FALSE,
                   !.index = IF Len(m.order) > 0 THEN 1 ELSE 0]

\* one test of `while mutated` and, when it holds, the start of the loop body
while_test(m) ==
    IF ~m.mutated THEN [m EXCEPT !.pc = "compiled"]
    ELSE IF m.iteration_count + 1 > MaxIteration
         THEN [m EXCEPT !.iteration_count = @ + 1, !.mutated = FALSE,
                        !.pc = "rbac_error"]
    ELSE [m EXCEPT !.iteration_count = @ + 1, !.mutated = FALSE,
                   !.index = IF Len(m.order) > 0 THEN 1 ELSE 0]

\* one step of _compile_permissions
compile_step(m) ==
    IF m.pc # "compiling" THEN m
    ELSE IF m.index = 0 THEN while_test(m)
    ELSE for_body(m)

\* n steps in a row (halved, and the first half evaluated before the second
\* starts, to keep the evaluation shallow)
RECURSIVE compile_steps(_, _)
compile_steps(m, n) ==
    IF n = 0 THEN m
    ELSE IF n = 1 THEN compile_step(m)
    ELSE LET first == compile_steps(m, n \div 2)
         IN  IF first.pc = "compiling"
             THEN compile_steps(first, n - (n \div 2))
             ELSE first

\* _compile_permissions run to its end: at most MaxIteration passes over the
\* roles, each after a test of the while loop, and the test that ends it
compile_permissions(m) ==
    compile_steps(m, MaxIteration * (Len(m.order) + 1) + 1)

\* the while loop is entered within the iteration limit
CompilePass ==
    /\ rbac.pc = "compiling" /\ rbac.index = 0 /\ rbac.mutated
    /\ rbac.iteration_count + 1 <= MaxIteration
    /\ rbac' = while_test(rbac)
    /\ UNCHANGED <<cb, trades, item_state, contact_count, req, response>>

\* the for loop visits the next role
PropagateRole ==
    /\ rbac.pc = "compiling" /\ rbac.index > 0
    /\ rbac' = for_body(rbac)
    /\ UNCHANGED <<cb, trades, item_state, contact_count, req, response>>

\* the iteration limit is exceeded: RBACError
CompileFail ==
    /\ rbac.pc = "compiling" /\ rbac.index = 0 /\ rbac.mutated
    /\ rbac.iteration_count + 1 > MaxIteration
    /\ rbac' = while_test(rbac)
    /\ UNCHANGED <<cb, trades, item_state, contact_count, req, response>>

\* the last pass mutated nothing: the loop ends
CompileFinish ==
    /\ rbac.pc = "compiling" /\ rbac.index = 0 /\ ~rbac.mutated
    /\ rbac' = while_test(rbac)
    /\ UNCHANGED <<cb, trades, item_state, contact_count, req, response>>

\* the iteration orders of a set of roles
Ascending(roles) ==
    [i \in 1..Cardinality(roles) |->
        CHOOSE r \in roles : Cardinality({x \in roles : x < r}) = i - 1]

Descending(roles) ==
    [i \in 1..Cardinality(roles) |->
        CHOOSE r \in roles : Cardinality({x \in roles : x > r}) = i - 1]

IterationOrders(roles) ==
    IF Cardinality(roles) <= MaxRoles
    THEN {o \in [1..Cardinality(roles) -> roles] :
             \A i, j \in 1..Cardinality(roles) : i # j => o[i] # o[j]}
    ELSE {Ascending(roles), Descending(roles)}

\* the configurations over RoleNames: all roles declared, or the last one not
RoleSets == {RoleNames, RoleNames \ {MaxRoles}}
InheritanceMaps == [RoleNames -> SUBSET RoleNames]
PermissionMaps == {f \in [RoleNames -> SUBSET Permissions] : \A r \in RoleNames : f[r] \subseteq {r}}

\* a chain one role longer than the iteration limit: role r inherits role
\* r + 1 and only the last role is granted a permission
ChainLen == MaxIteration + 1
ChainRoles == 1..ChainLen
ChainInheritance == [r \in 1..(ChainLen - 1) |-> {r + 1}]
ChainPermissions == [r \in {ChainLen} |-> {ChainLen}]

InitRbac ==
    /\ trades = <<>>
    /\ item_state = [i \in ItemIds |-> IF i = 3 THEN "hide" ELSE "valid"]
    /\ contact_count = [u \in UserIds |-> IF u = 1 THEN 0 ELSE 1]
    /\ req = [s \in Slots |-> Idle]
    /\ response = NoResponse
    /\ cb = NoCallbackManager
    /\ \/ \E roles \in RoleSets, role_inheritance \in InheritanceMaps,
             role_permissions \in PermissionMaps :
             \E order \in IterationOrders(roles) :
                rbac = RBACManager(roles, role_inheritance, role_permissions, order)
       \/ \E order \in IterationOrders(ChainRoles) :
             rbac = RBACManager(ChainRoles, ChainInheritance, ChainPermissions, order)

NextRbac == CompilePass \/ PropagateRole \/ CompileFail \/ CompileFinish

SpecRbac == InitRbac /\ [][NextRbac]_vars

\* the configurations in which no role inherits from itself and every role is
\* declared and granted its own permission
AcyclicSelfMaps == {f \in InheritanceMaps : \A r \in RoleNames : r \notin f[r]}
OwnPermissions == [r \in RoleNames |-> {r}]

InitRbacFair ==
    /\ trades = <<>>
    /\ item_state = [i \in ItemIds |-> IF i = 3 THEN "hide" ELSE "valid"]
    /\ contact_count = [u \in UserIds |-> IF u = 1 THEN 0 ELSE 1]
    /\ req = [s \in Slots |-> Idle]
    /\ response = NoResponse
    /\ cb = NoCallbackManager
    /\ \/ \E role_inheritance \in AcyclicSelfMaps :
             \E order \in {Ascending(RoleNames), Descending(RoleNames)} :
                rbac = RBACManager(RoleNames, role_inheritance, OwnPermissions, order)
       \/ \E order \in IterationOrders(ChainRoles) :
             rbac = RBACManager(ChainRoles, ChainInheritance, ChainPermissions, order)

\* the constructor runs to its end: nothing suspends it
SpecRbacFair == InitRbacFair /\ [][NextRbac]_vars /\ WF_vars(NextRbac)

\* ---------------------------------------------------------------- auth
\* rbac_config.SIGNED_IN_ROLE or rbac_config.GUEST_ROLE set to None
NoRole == 0
\* the current user: nobody, or a user with the names of their roles
NoUser == [logged_in |-> FALSE, role_name_list |-> {}]
Users == {NoUser} \cup {[logged_in |-> TRUE, role_name_list |-> S] : S \in SUBSET RoleNames}
\* the settings of rbac_config the requests run under
SignedInRoles == {NoRole, 1}
GuestRoles == {NoRole, 2}

\* RBACManager.check_role
check_role(m, role) == IF role \notin m.roles THEN "invalid_role" ELSE OK

\* RBACManager.check_role_has_permission
check_role_has_permission(m, role, permission) ==
    IF check_role(m, role) # OK THEN check_role(m, role)
    ELSE IF permission \notin m.compiled[role] THEN "insufficient_permission"
    ELSE OK

\* RBACManager.check_role_has_all_permissions: the role has every one of the
\* permissions
check_role_has_all_permissions(m, role, permissions) ==
    IF \E p \in permissions : check_role_has_permission(m, role, p) = "invalid_role"
    THEN "invalid_role"
    ELSE IF \E p \in permissions :
                check_role_has_permission(m, role, p) = "insufficient_permission"
    THEN "insufficient_permission"
    ELSE OK

\* the role set check_user_permission examines
get_role_set(user, signed_in_role, guest_role) ==
    IF user.logged_in
    THEN user.role_name_list \cup
            (IF signed_in_role # NoRole THEN {signed_in_role} ELSE {})
    ELSE IF guest_role # NoRole THEN {guest_role}
    ELSE {}

\* the outcome of a permission check: the value returned, or the error raised
\* with the roles and the permissions it carries
Returned(ret) == [err |-> OK, ret |-> ret, roles |-> {}, permissions |-> {}]
Raised(err, roles, permissions) ==
    [err |-> err, ret |-> FALSE, roles |-> roles, permissions |-> permissions]

\* `for role in role_set` from the k-th role of the iteration order on, and
\* the raise after it
RECURSIVE check_roles_from(_, _, _, _)
check_roles_from(m, role_seq, required_permissions, k) ==
    IF k > Len(role_seq)
    THEN Raised("permission_required", {role_seq[i] : i \in 1..Len(role_seq)},
                required_permissions)
    ELSE LET e == check_role_has_all_permissions(m, role_seq[k], required_permissions)
         IN  IF e = OK THEN Returned(TRUE)
             ELSE IF e = "insufficient_permission"
                  THEN check_roles_from(m, role_seq, required_permissions, k + 1)
             ELSE Raised(e, {}, {})

\* variant of check_user_permission: the permissions of the roles are pooled
check_user_permission_pooled(m, role_seq, required_permissions) ==
    LET role_set == {role_seq[i] : i \in 1..Len(role_seq)}
    IN  IF role_set # {} /\ \A p \in required_permissions :
              \E role \in role_set : check_role_has_permission(m, role, p) = OK
        THEN Returned(TRUE)
        ELSE Raised("permission_required", role_set, required_permissions)

\* check_user_permission once the role set is known; role_seq is the role set
\* in the order in which it is iterated
check_user_permission(m, role_seq, required_permissions) ==
    check_roles_from(m, role_seq, required_permissions, 1)

\* variant of check_permission: raise_on_fail is ignored
check_permission_raises(m, role_seq, required_permissions, raise_on_fail) ==
    check_user_permission(m, role_seq, required_permissions)

\* PermissionsChecker.check_permission
check_permission(m, role_seq, required_permissions, raise_on_fail) ==
    LET r == check_user_permission(m, role_seq, required_permissions)
    IN  IF r.err = OK THEN Returned(TRUE)
        ELSE IF raise_on_fail THEN r
        ELSE Returned(FALSE)

\* what a permission check answers: the call (role set, required permissions)
\* and its outcome
AuthResponse(op, role_set, required_permissions, raise_on_fail, r) ==
    [op |-> op, role_set |-> role_set, required |-> required_permissions,
     raise_on_fail |-> raise_on_fail,
     err |-> r.err, ret |-> r.ret, roles |-> r.roles, permissions |-> r.permissions]

\* a request checked by check_user_permission
CheckUserPermission(user, signed_in_role, guest_role, required_permissions) ==
    /\ rbac.pc = "compiled"
    /\ LET role_set == get_role_set(user, signed_in_role, guest_role)
       IN  \E role_seq \in IterationOrders(role_set) :
              response' = AuthResponse("check_user_permission", role_set,
                              required_permissions, TRUE,
                              check_user_permission(rbac, role_seq, required_permissions))
    /\ UNCHANGED <<cb, trades, item_state, contact_count, req, rbac>>

\* a request checked by a PermissionsChecker dependency
CheckPermission(user, signed_in_role, guest_role, required_permissions, raise_on_fail) ==
    /\ rbac.pc = "compiled"
    /\ LET role_set == get_role_set(user, signed_in_role, guest_role)
       IN  \E role_seq \in IterationOrders(role_set) :
              response' = AuthResponse("check_permission", role_set,
                              required_permissions, raise_on_fail,
                              check_permission(rbac, role_seq, required_permissions,
                                               raise_on_fail))
    /\ UNCHANGED <<cb, trades, item_state, contact_count, req, rbac>>

\* the role graphs the requests are checked against: every role is declared
\* and granted its own permission, the last role inherits nothing
AuthInheritanceMaps == {f \in AcyclicSelfMaps : f[MaxRoles] = {}}

InitAuth ==
    /\ trades = <<>>
    /\ item_state = [i \in ItemIds |-> IF i = 3 THEN "hide" ELSE "valid"]
    /\ contact_count = [u \in UserIds |-> IF u = 1 THEN 0 ELSE 1]
    /\ req = [s \in Slots |-> Idle]
    /\ response = NoResponse
    /\ cb = NoCallbackManager
    /\ \E role_inheritance \in AuthInheritanceMaps :
          rbac = RBACManager(RoleNames, role_inheritance, OwnPermissions,
                             Ascending(RoleNames))

NextAuth ==
    \/ CompilePass
    \/ PropagateRole
    \/ CompileFinish
    \/ \E user \in Users, signed_in_role \in SignedInRoles, guest_role \in GuestRoles,
          required_permissions \in SUBSET Permissions :
          \/ CheckUserPermission(user, signed_in_role, guest_role, required_permissions)
          \/ \E raise_on_fail \in BOOLEAN :
                CheckPermission(user, signed_in_role, guest_role,
                                required_permissions, raise_on_fail)

SpecAuth == InitAuth /\ [][NextAuth]_vars

\* -------------------------------------------------------- CallbackManager
\* src/tools/callback_manager.py and NotificationSender.send.  A dict of
\* callbacks is a sequence of (key, fn) entries in insertion order.
MaxHandlers == 2

Signals == {"before", "upon", "after"}
\* the callback functions: synchronous or asynchronous; each returns None,
\* returns False or raises
Handlers == {"sync_none", "sync_false", "sync_raise",
             "async_none", "async_false", "async_raise"}
IsAsync(fn) == fn \in {"async_none", "async_false", "async_raise"}
Result(fn) ==
    CASE fn \in {"sync_none", "async_none"} -> "None"
      [] fn \in {"sync_false", "async_false"} -> "False"
      [] OTHER -> "raise"
\* the keys given explicitly to add
Keys == {"k"}

\* the dict {}
EmptyDict == [s \in {} |-> <<>>]

\* a CallbackManager with no call on it: the attributes callbacks and disabled
\* and the cleared record of a call (trigger: signal, tpc, index,
\* should_continue, interrput_key, its outcome terr, tkey; the callbacks
\* started and ended; send: stage, the stages gone through, the temporary
\* values, the session, what send returned or raised)
CallbackManager(callbacks, disabled) ==
    [op |-> "none", err |-> OK, callbacks |-> callbacks, disabled |-> disabled,
     signal |-> "none", tpc |-> "none", index |-> 0,
     should_continue |-> TRUE, interrput_key |-> None,
     terr |-> OK, tkey |-> None, events |-> <<>>,
     stage |-> "none", stages |-> <<>>,
     curr |-> [content |-> FALSE, receiver |-> FALSE, session |-> FALSE,
               sender |-> FALSE],
     added |-> FALSE, committed |-> FALSE, returned |-> "none"]

\* no call is running on the manager
Registering(c) == c.op \in {"none", "add", "clear"}
Quiescent(c) ==
    \/ Registering(c)
    \/ c.op = "trigger" /\ c.tpc = "done"
    \/ c.op = "send" /\ c.returned # "none"

\* the number of callbacks stored
TotalHandlers(c) ==
    LET sigs == DOMAIN c.callbacks
    IN  Cardinality({<<sg, i>> \in sigs \X (1..MaxHandlers) : i <= Len(c.callbacks[sg])})

HasKey(cb_dict, key) == \E i \in DOMAIN cb_dict : cb_dict[i].key = key

\* cb_dict[key] = fn
DictSet(cb_dict, key, fn) ==
    IF HasKey(cb_dict, key)
    THEN [i \in DOMAIN cb_dict |->
             IF cb_dict[i].key = key THEN [key |-> key, fn |-> fn] ELSE cb_dict[i]]
    ELSE Append(cb_dict, [key |-> key, fn |-> fn])

\* the key add stores fn under
KeyOf(fn, key) == IF key = None THEN fn ELSE key

\* CallbackManager.add
add(c, signal, fn, key) ==
    IF signal \notin DOMAIN c.callbacks
    THEN [c EXCEPT !.op = "add", !.err = "KeyError"]
    ELSE [c EXCEPT !.op = "add", !.err = OK,
                   !.callbacks[signal] = DictSet(@, KeyOf(fn, key), fn)]

\* CallbackManager.clear
clear(c) == [c EXCEPT !.op = "clear", !.err = OK, !.callbacks = EmptyDict]

\* trigger returns (terr = OK) or raises terr
trigger_finish(c, terr, tkey) ==
    [c EXCEPT !.tpc = "done", !.terr = terr, !.tkey = tkey]

\* trigger up to the start of the for loop
trigger_enter(c, signal) ==
    LET c0 == [c EXCEPT !.signal = signal, !.index = 0, !.should_continue = TRUE,
                        !.interrput_key = None, !.terr = OK, !.tkey = None]
    IN  IF c.disabled THEN trigger_finish(c0, OK, None)
        ELSE IF signal \notin DOMAIN c.callbacks
             THEN trigger_finish(c0, "KeyError", None)
        ELSE [c0 EXCEPT !.tpc = "loop", !.index = 1]

\* the callback with key k has ended with res: an exception leaves trigger,
\* a result is tested and the loop goes on
handler_result(c, k, res) ==
    IF res = "raise" THEN trigger_finish(c, "handler_error", k)
    ELSE [c EXCEPT !.should_continue = IF res = "False" THEN FALSE ELSE @,
                   !.interrput_key = IF res = "False" THEN k ELSE @,
                   !.index = @ + 1, !.tpc = "loop"]

\* variant of handler_call: the awaitable of an asynchronous callback is not
\* awaited
handler_call_not_awaited(c) ==
    LET h == c.callbacks[c.signal][c.index]
        started == [c EXCEPT !.events = Append(@, <<"start", c.signal, h.key>>)]
    IN  IF IsAsync(h.fn) THEN handler_result(started, h.key, "None")
        ELSE handler_result(
                [started EXCEPT !.events = Append(@, <<"end", c.signal, h.key>>)],
                h.key, Result(h.fn))

\* the callback at c.index is called: a synchronous one runs to its end, an
\* asynchronous one is started by the await and may suspend
handler_call(c) ==
    LET h == c.callbacks[c.signal][c.index]
        started == [c EXCEPT !.events = Append(@, <<"start", c.signal, h.key>>)]
    IN  IF IsAsync(h.fn) THEN [started EXCEPT !.tpc = "await"]
        ELSE handler_result(
                [started EXCEPT !.events = Append(@, <<"end", c.signal, h.key>>)],
                h.key, Result(h.fn))

\* the awaited callback ends
handler_complete(c) ==
    LET h == c.callbacks[c.signal][c.index]
    IN  handler_result([c EXCEPT !.events = Append(@, <<"end", c.signal, h.key>>)],
                       h.key, Result(h.fn))

\* trigger after the for loop
trigger_return(c) ==
    IF ~c.should_continue
    THEN trigger_finish(c, "callback_interrupted", c.interrput_key)
    ELSE trigger_finish(c, OK, None)

\* NotificationSender.check_validity on the temporary values
check_validity(curr) ==
    IF ~curr.content THEN "invalid_content"
    ELSE IF ~curr.receiver THEN "invalid_receiver"
    ELSE IF ~curr.session THEN "invalid_session"
    ELSE IF ~curr.sender THEN "sender_not_trusted"
    ELSE OK

\* send returns a value or raises err
send_finish(c, returned, err) == [c EXCEPT !.returned = returned, !.err = err]

\* send calls trigger(signal)
send_trigger(c, signal) ==
    trigger_enter([c EXCEPT !.stage = signal, !.stages = Append(@, signal)], signal)

\* send up to the start of trigger("before")
send_enter(c, curr) == send_trigger([c EXCEPT !.curr = curr], "before")

\* variant of send_check: the validity of the temporary values is not checked
send_check_skipped(c) ==
    IF c.terr = "callback_interrupted" THEN send_finish(c, "None", OK)
    ELSE IF c.terr # OK THEN send_finish(c, "raise", c.terr)
    ELSE send_trigger([c EXCEPT !.stages = Append(@, "check")], "upon")

\* send from the end of trigger("before") to the start of trigger("upon")
send_check(c) ==
    IF c.terr = "callback_interrupted" THEN send_finish(c, "None", OK)
    ELSE IF c.terr # OK THEN send_finish(c, "raise", c.terr)
    ELSE LET checked == [c EXCEPT !.stages = Append(@, "check")]
         IN  IF check_validity(c.curr) # OK
             THEN send_finish(checked, "raise", check_validity(c.curr))
             ELSE send_trigger(checked, "upon")

\* send from the end of trigger("upon") to the start of trigger("after"):
\* the notification is added to the session and try_commit commits, or rolls
\* back and raises
send_commit(c, commit_ok) ==
    IF c.terr = "callback_interrupted" THEN send_finish(c, "None", OK)
    ELSE IF c.terr # OK THEN send_finish(c, "raise", c.terr)
    ELSE LET added == [c EXCEPT !.added = TRUE, !.stages = Append(@, "commit")]
         IN  IF commit_ok
             THEN send_trigger([added EXCEPT !.committed = TRUE], "after")
             ELSE send_finish([added EXCEPT !.added = FALSE], "raise", "commit_error")

\* send from the end of trigger("after") on
send_return(c) ==
    IF c.terr \in {OK, "callback_interrupted"} THEN send_finish(c, "notification", OK)
    ELSE send_finish(c, "raise", c.terr)

\* the manager with the record of the last call cleared
NewCall(c, op) == [CallbackManager(c.callbacks, c.disabled) EXCEPT !.op = op]

\* callback_manager.add(signal, fn, key); callbacks are registered before the
\* first call
Add(signal, fn, key) ==
    /\ Registering(cb)
    /\ (signal \in DOMAIN cb.callbacks /\ ~HasKey(cb.callbacks[signal], KeyOf(fn, key)))
          => TotalHandlers(cb) < MaxHandlers
    /\ cb' = add(cb, signal, fn, key)
    /\ UNCHANGED <<trades, item_state, contact_count, req, response, rbac>>

\* callback_manager.clear()
Clear ==
    /\ Registering(cb)
    /\ cb' = clear(cb)
    /\ UNCHANGED <<trades, item_state, contact_count, req, response, rbac>>

\* callback_manager.trigger(signal) is called
TriggerCall(signal) ==
    /\ Quiescent(cb)
    /\ cb' = trigger_enter(NewCall(cb, "trigger"), signal)
    /\ UNCHANGED <<trades, item_state, contact_count, req, response, rbac>>

\* the for loop of trigger calls the next callback
HandlerCall ==
    /\ cb.tpc = "loop" /\ cb.index <= Len(cb.callbacks[cb.signal])
    /\ cb' = handler_call(cb)
    /\ UNCHANGED <<trades, item_state, contact_count, req, response, rbac>>

\* the callback trigger awaits ends
HandlerComplete ==
    /\ cb.tpc = "await"
    /\ cb' = handler_complete(cb)
    /\ UNCHANGED <<trades, item_state, contact_count, req, response, rbac>>

\* the for loop of trigger is over
TriggerReturn ==
    /\ cb.tpc = "loop" /\ cb.index > Len(cb.callbacks[cb.signal])
    /\ cb' = trigger_return(cb)
    /\ UNCHANGED <<trades, item_state, contact_count, req, response, rbac>>

\* NotificationSender.send is called; curr tells which of the temporary
\* values init_curr leaves valid
SendCall(curr) ==
    /\ Quiescent(cb)
    /\ cb' = send_enter(NewCall(cb, "send"), curr)
    /\ UNCHANGED <<trades, item_state, contact_count, req, response, rbac>>

SendCheck ==
    /\ cb.op = "send" /\ cb.stage = "before" /\ cb.tpc = "done" /\ cb.returned = "none"
    /\ cb' = send_check(cb)
    /\ UNCHANGED <<trades, item_state, contact_count, req, response, rbac>>

SendCommit(commit_ok) ==
    /\ cb.op = "send" /\ cb.stage = "upon" /\ cb.tpc = "done" /\ cb.returned = "none"
    /\ cb' = send_commit(cb, commit_ok)
    /\ UNCHANGED <<trades, item_state, contact_count, req, response, rbac>>

SendReturn ==
    /\ cb.op = "send" /\ cb.stage = "after" /\ cb.tpc = "done" /\ cb.returned = "none"
    /\ cb' = send_return(cb)
    /\ UNCHANGED <<trades, item_state, contact_count, req, response, rbac>>

\* the managers the calls start from: the one __init__ leaves (callbacks = {}),
\* and managers whose attribute callbacks holds an empty dict for every signal,
\* or for every signal but "after"; disabled is an attribute too
SignalSets == {{}, Signals, Signals \ {"after"}}
CurrValues == [content : BOOLEAN, receiver : BOOLEAN, session : BOOLEAN,
               sender : BOOLEAN]

InitCallback ==
    /\ trades = <<>>
    /\ item_state = [i \in ItemIds |-> IF i = 3 THEN "hide" ELSE "valid"]
    /\ contact_count = [u \in UserIds |-> IF u = 1 THEN 0 ELSE 1]
    /\ req = [s \in Slots |-> Idle]
    /\ response = NoResponse
    /\ rbac = NoManager
    /\ \E S \in SignalSets, disabled \in BOOLEAN :
          cb = CallbackManager([s \in S |-> <<>>], disabled)

NextCallback ==
    \/ \E signal \in Signals, fn \in Handlers, key \in Keys \cup {None} :
          Add(signal, fn, key)
    \/ Clear
    \/ \E signal \in Signals : TriggerCall(signal)
    \/ HandlerCall
    \/ HandlerComplete
    \/ TriggerReturn
    \/ \E curr \in CurrValues : SendCall(curr)
    \/ SendCheck
    \/ \E commit_ok \in BOOLEAN : SendCommit(commit_ok)
    \/ SendReturn

SpecCallback == InitCallback /\ [][NextCallback]_vars

\* ------------------------------------------------------- claims: vocabulary
\* the state a guard reads, in the words of the specification
ItemHasProcessing(item_id) ==
    \E t \in TradeIds : trades[t].item_id = item_id /\ trades[t].state = "processing"

ItemEligible(item_id) == item_state[item_id] = "valid" /\ ~ItemHasProcessing(item_id)

ProcessingCount(user) ==
    Cardinality({t \in TradeIds : trades[t].buyer_id = user /\ trades[t].state = "processing"})

BuyerEligible(user) ==
    contact_count[user] > 0 /\ ProcessingCount(user) < MAX_TRANSACTION_PER_BUYER

HasTradeIn(buyer, item_id, states) ==
    \E t \in TradeIds : /\ trades[t].buyer_id = buyer
                        /\ trades[t].item_id = item_id
                        /\ trades[t].state \in states

\* the step creates exactly one record, a fresh pending trade of (buyer, item),
\* and changes no other row
CreatesPending(buyer, item_id) ==
    /\ Len(trades') = Len(trades) + 1
    /\ SubSeq(trades', 1, Len(trades)) = trades
    /\ LET new == trades'[Len(trades')]
       IN  /\ new.buyer_id = buyer /\ new.item_id = item_id
           /\ new.state = "pending"
           /\ new.created_time # NullTime
           /\ new.accepted_time = NullTime
           /\ new.confirmed_time = NullTime
           /\ new.completed_time = NullTime
           /\ new.cancel_reason = None

\* ---------------------------------------------------------------- C1
\* C1: in every reachable state no item has more than one TradeRecord in
\* state processing.
C1_OneProcessingPerItem ==
    \A i \in ItemIds :
        Cardinality({t \in TradeIds : trades[t].item_id = i
                                      /\ trades[t].state = "processing"}) <= 1

\* ---------------------------------------------------------------- C2
\* C2: in every reachable state no (buyer, item) pair has more than one
\* TradeRecord in state pending or processing.
C2_OneNegotiationPerPair ==
    \A b \in UserIds, i \in ItemIds :
        Cardinality({t \in TradeIds : /\ trades[t].buyer_id = b
                                      /\ trades[t].item_id = i
                                      /\ trades[t].state \in {"pending", "processing"}}) <= 1

\* ---------------------------------------------------------------- C3
\* C3 as stated: of two concurrent start() calls on the same valid item one
\* succeeds and the other fails with processing_transaction_exists.  A start
\* suspended after its guard check succeeds at its commit, so a start on the
\* same item that runs meanwhile is the one that has to fail.
C3_ConcurrentStartsExclusive ==
    [][\A s \in Slots, u \in UserIds, i \in ItemIds, now \in Times :
          (req[s].op = "start" /\ req[s].target = i /\ StartRequest(u, i, now))
          => (response'.err = "processing_transaction_exists" /\ trades' = trades)]_vars

\* C3 amended: each of two concurrent start() calls is decided by its own
\* guards.  A start fails with processing_transaction_exists exactly when its
\* guard check finds the item valid with a trade in state processing; a pending
\* trade never blocks, so two starts on an eligible item by distinct eligible
\* buyers both succeed, each creating its own pending trade.
C3_StartsDecidedByOwnGuards ==
    [][/\ \A u \in UserIds, i \in ItemIds, now \in Times :
             StartRequest(u, i, now) =>
                /\ (response'.err = "processing_transaction_exists")
                      <=> (item_state[i] = "valid" /\ ItemHasProcessing(i))
                /\ (/\ ItemEligible(i) /\ BuyerEligible(u) /\ u # ItemSeller(i)
                    /\ ~HasTradeIn(u, i, {"pending", "processing"}))
                      => (response'.err = OK /\ CreatesPending(u, i))
       /\ \A s \in Slots, now \in Times :
             StartCommit(s, now) =>
                (response'.err = OK /\ CreatesPending(req[s].user, req[s].target))
      ]_vars

\* two starts on one item overlap and the first to commit has succeeded: the
\* last record is a trade on the item a suspended start has passed its guards for
C3_Witness ==
    /\ response = [op |-> "start", err |-> OK]
    /\ Len(trades) > 0
    /\ \E s \in Slots : /\ req[s].op = "start"
                        /\ req[s].target = trades[Len(trades)].item_id
                        /\ req[s].user # trades[Len(trades)].buyer_id

\* ---------------------------------------------------------------- C4
\* C4 as stated: while a buyer has a pending trade on an item, a second start()
\* by that buyer on that item fails with duplicated_transaction and creates no
\* second record.
C4_SecondStartDuplicated ==
    [][\A u \in UserIds, i \in ItemIds, now \in Times :
          (HasTradeIn(u, i, {"pending"}) /\ StartRequest(u, i, now))
          => (response'.err = "duplicated_transaction" /\ trades' = trades)]_vars

\* C4 amended: while a buyer has a pending trade on an item, a second start()
\* by that buyer on that item fails and creates no second record; the error is
\* duplicated_transaction unless an earlier guard (item eligibility, buyer
\* eligibility, non-self-trade) fails first, and then it is that guard's error.
C4_SecondStartFails ==
    [][\A u \in UserIds, i \in ItemIds :
          HasTradeIn(u, i, {"pending"}) =>
             /\ \A s \in Slots : ~StartCheck(s, u, i)
             /\ \A now \in Times :
                   StartRequest(u, i, now) =>
                      /\ response'.err # OK
                      /\ trades' = trades
                      /\ (ItemEligible(i) /\ BuyerEligible(u) /\ u # ItemSeller(i))
                            => response'.err = "duplicated_transaction"
                      /\ ~(ItemEligible(i) /\ BuyerEligible(u) /\ u # ItemSeller(i))
                            => response'.err \in
                                  {"invalid_item", "processing_transaction_exists",
                                   "no_valid_contact_info",
                                   "processing_transaction_limit_exceeded",
                                   "identical_seller_buyer"}
      ]_vars

\* a second start of a buyer with a pending trade was refused as a duplicate
C4_Witness ==
    /\ response = [op |-> "start", err |-> "duplicated_transaction"]
    /\ \E u \in UserIds, i \in ItemIds : HasTradeIn(u, i, {"pending"})

\* ---------------------------------------------------------------- C5
\* C5 as stated: start(buyer, item) by the seller of the item always fails with
\* identical_seller_buyer, whatever the other guards would say.
C5_SelfTradeIdentical ==
    [][\A i \in ItemIds, now \in Times :
          StartRequest(ItemSeller(i), i, now)
          => response'.err = "identical_seller_buyer"]_vars

\* C5 amended: start(buyer, item) by the seller of the item always fails and
\* creates no record; the error is identical_seller_buyer whenever the item
\* and the buyer are eligible, and otherwise the error of the earlier guard
\* that fails (invalid_item, processing_transaction_exists,
\* no_valid_contact_info, processing_transaction_limit_exceeded).
C5_SelfTradeFails ==
    [][\A i \in ItemIds :
          /\ \A s \in Slots : ~StartCheck(s, ItemSeller(i), i)
          /\ \A now \in Times :
                StartRequest(ItemSeller(i), i, now) =>
                   /\ response'.err # OK
                   /\ trades' = trades
                   /\ (ItemEligible(i) /\ BuyerEligible(ItemSeller(i)))
                         => response'.err = "identical_seller_buyer"
                   /\ ~(ItemEligible(i) /\ BuyerEligible(ItemSeller(i)))
                         => response'.err \in
                               {"invalid_item", "processing_transaction_exists",
                                "no_valid_contact_info",
                                "processing_transaction_limit_exceeded"}
      ]_vars

\* a seller's start on an own item was refused as a self-trade
C5_Witness == response = [op |-> "start", err |-> "identical_seller_buyer"]

\* ---------------------------------------------------------------- C6
\* every start guard passes for (buyer, item) in the current state
AllStartGuardsPass(buyer, item_id) ==
    /\ ItemEligible(item_id)
    /\ BuyerEligible(buyer)
    /\ buyer # ItemSeller(item_id)
    /\ ~HasTradeIn(buyer, item_id, {"pending", "processing"})

\* C6: start is all-or-nothing.  When a start guard fails the request is
\* refused, no record is created and no trade or item changes; when all guards
\* pass exactly one record is created, pending, with created_time set and
\* accepted_time, confirmed_time, completed_time and cancel_reason null, and
\* nothing else changes.  A start that passed its guards and commits later
\* creates its record in the same way.
C6_StartAllOrNothing ==
    [][/\ \A u \in UserIds, i \in ItemIds, now \in Times :
             StartRequest(u, i, now) =>
                /\ item_state' = item_state
                /\ AllStartGuardsPass(u, i)
                      => (response'.err = OK /\ CreatesPending(u, i))
                /\ ~AllStartGuardsPass(u, i)
                      => (response'.err # OK /\ trades' = trades)
       /\ \A s \in Slots, u \in UserIds, i \in ItemIds :
             StartCheck(s, u, i) =>
                (AllStartGuardsPass(u, i) /\ trades' = trades /\ item_state' = item_state)
       /\ \A s \in Slots, now \in Times :
             StartCommit(s, now) =>
                (CreatesPending(req[s].user, req[s].target) /\ item_state' = item_state)
      ]_vars

\* a start succeeded next to an existing trade: its record is the last one
C6_Witness ==
    /\ response = [op |-> "start", err |-> OK]
    /\ Len(trades) = 2
    /\ trades[2].state = "pending"
    /\ trades[2].created_time # NullTime

\* ---------------------------------------------------------------- C7
\* the table after trade t was accepted at time now: only its state and its
\* accepted_time differ
Accepted(t, now) ==
    [trades EXCEPT ![t] = [@ EXCEPT !.state = "processing", !.accepted_time = now]]

\* C7: accept by the seller of the item on a pending trade whose item is valid
\* and has no processing trade sets the state to processing and sets
\* accepted_time, and changes nothing else; a refused accept leaves every trade
\* unchanged.  An accept that passed its guards and commits later writes the
\* same two columns.
C7_AcceptEffect ==
    [][/\ \A u \in UserIds, t \in TradeIds, now \in Times :
             AcceptRequest(u, t, now) =>
                /\ (/\ u = ItemSeller(trades[t].item_id)
                    /\ trades[t].state = "pending"
                    /\ ItemEligible(trades[t].item_id))
                      => (response'.err = OK /\ trades' = Accepted(t, now))
                /\ response'.err # OK => trades' = trades
                /\ item_state' = item_state
       /\ \A s \in Slots, u \in UserIds, t \in TradeIds :
             AcceptCheck(s, u, t) =>
                /\ u = ItemSeller(trades[t].item_id)
                /\ trades[t].state = "pending"
                /\ ItemEligible(trades[t].item_id)
                /\ trades' = trades
       /\ \A s \in Slots, now \in Times :
             AcceptCommit(s, now) =>
                (response'.err = OK /\ trades' = Accepted(req[s].target, now))
      ]_vars

\* an accept succeeded: a trade is processing with accepted_time set
C7_Witness ==
    /\ response = [op |-> "accept", err |-> OK]
    /\ \E t \in TradeIds : /\ trades[t].state = "processing"
                           /\ trades[t].accepted_time # NullTime

\* ---------------------------------------------------------------- C8
\* C8 as stated: accept by the seller of the item on a trade that is not
\* pending fails with transaction_not_pending.
C8_NotPendingError ==
    [][\A t \in TradeIds, now \in Times :
          (trades[t].state # "pending"
           /\ AcceptRequest(ItemSeller(trades[t].item_id), t, now))
          => response'.err = "transaction_not_pending"]_vars

\* C8 amended: accept by the seller of the item on a trade that is not pending
\* always fails and leaves the trade unchanged; the error is
\* transaction_not_pending when the item is valid and has no processing trade,
\* and otherwise the error of the item guard, which runs first: invalid_item,
\* or processing_transaction_exists (always the case for a processing trade).
C8_NotPendingFails ==
    [][\A t \in TradeIds :
          trades[t].state # "pending" =>
             /\ \A s \in Slots : ~AcceptCheck(s, ItemSeller(trades[t].item_id), t)
             /\ \A now \in Times :
                   AcceptRequest(ItemSeller(trades[t].item_id), t, now) =>
                      /\ trades' = trades
                      /\ ItemEligible(trades[t].item_id)
                            => response'.err = "transaction_not_pending"
                      /\ item_state[trades[t].item_id] # "valid"
                            => response'.err = "invalid_item"
                      /\ (/\ item_state[trades[t].item_id] = "valid"
                          /\ ItemHasProcessing(trades[t].item_id))
                            => response'.err = "processing_transaction_exists"
      ]_vars

\* the seller's accept of a trade that is no longer pending was refused
C8_Witness ==
    /\ response = [op |-> "accept", err |-> "transaction_not_pending"]
    /\ \E t \in TradeIds : trades[t].state \in {"success", "cancelled"}

C10_SuccessNeverCancelled ==
    [][\A t \in TradeIds :
          (trades[t].state = "success" /\ t \in DOMAIN trades')
             => trades'[t].state = "success"]_vars

\* --------------------------------------------------------------- C11
\* C11: in every reachable state the cancel_reason of a trade is non-null if
\* and only if its state is cancelled.
C11_CancelReasonIffCancelled ==
    \A t \in TradeIds :
        (trades[t].cancel_reason # None) <=> (trades[t].state = "cancelled")

\* --------------------------------------------------------------- C12
\* C12: accepted_time is null for a pending trade and non-null for a processing
\* or success trade; it is set only by a step that makes the trade processing
\* and is never cleared by a later step, and a cancelling step leaves it as it
\* was, so a cancelled trade has it non-null exactly when it was accepted
\* before it was cancelled.
C12_AcceptedTimeInv ==
    \A t \in TradeIds :
        /\ trades[t].state = "pending" => trades[t].accepted_time = NullTime
        /\ trades[t].state \in {"processing", "success"}
              => trades[t].accepted_time # NullTime

C12_AcceptedTimeStep ==
    \A t \in TradeIds :
        /\ trades'[t].buyer_id = trades[t].buyer_id
        /\ trades'[t].item_id = trades[t].item_id
        /\ trades[t].accepted_time # NullTime
              => trades'[t].accepted_time # NullTime
        /\ (trades[t].accepted_time = NullTime /\ trades'[t].accepted_time # NullTime)
              => (trades[t].state # "processing" /\ trades'[t].state = "processing")
        /\ (trades'[t].state = "cancelled" /\ trades[t].state # "cancelled")
              => trades'[t].accepted_time = trades[t].accepted_time

C12_AcceptedTime ==
    []C12_AcceptedTimeInv /\ [][C12_AcceptedTimeStep]_vars

\* a trade was cancelled after it had been accepted, next to one cancelled
\* while pending
C12_Witness ==
    /\ Len(trades) = 2
    /\ trades[1].state = "cancelled" /\ trades[1].accepted_time # NullTime
    /\ trades[2].state = "cancelled" /\ trades[2].accepted_time = NullTime

\* --------------------------------------------------------------- C13
\* the reason the specification derives for (actor, trade), or RuntimeError
DerivedReason(user, trade) ==
    LET seller == user = ItemSeller(trade.item_id)
        buyer == user = trade.buyer_id
    IN  CASE trade.state = "pending" /\ seller -> "seller_rejected"
          [] trade.state = "pending" /\ buyer /\ ~seller -> "cancelled_by_buyer"
          [] trade.state = "processing" /\ seller -> "cancelled_by_seller"
          [] trade.state = "processing" /\ buyer /\ ~seller -> "cancelled_by_buyer"
          [] OTHER -> "RuntimeError"

C14_ConfirmedNotCancellable ==
    [][\A u \in UserIds, t \in TradeIds :
          (trades[t].confirmed_time # NullTime /\ DetermineCancelReason(u, t, TRUE))
             => (/\ response'.err = "could_not_cancel_confirmed_transaction"
                 /\ trades' = trades)]_vars

\* the enforced check refused the cancel of a confirmed trade
C14_Witness ==
    /\ response = [op |-> "determine_cancel_reason",
                   err |-> "could_not_cancel_confirmed_transaction"]
    /\ \E t \in TradeIds : trades[t].confirmed_time # NullTime

\* ------------------------------------------------------ RBAC: vocabulary
Terminated == rbac.pc \in {"compiled", "rbac_error"}

\* every role the inheritance map or the permission map refers to is declared
WellFormed(m) ==
    /\ DOMAIN m.role_inheritance \subseteq m.roles
    /\ \A k \in DOMAIN m.role_inheritance : m.role_inheritance[k] \subseteq m.roles
    /\ DOMAIN m.role_permissions \subseteq m.roles

\* the roles reachable from the roles of S along at most n inheritance edges
RECURSIVE ReachableWithin(_, _, _)
ReachableWithin(m, S, n) ==
    IF n = 0 THEN S
    ELSE IF n = 1 THEN S \cup UNION {Get(m.role_inheritance, x, {}) : x \in S}
    ELSE LET first == ReachableWithin(m, S, n \div 2)
         IN  IF first = S THEN S ELSE ReachableWithin(m, first, n - (n \div 2))

\* the roles reachable from the roles of S along inheritance edges, S included
ReachableFrom(m, S) ==
    ReachableWithin(m, S, Cardinality(m.roles \cup DOMAIN m.role_inheritance))

\* the union of the direct grants of the roles reachable from r
ClosedPermissions(m, r) ==
    UNION {Get(m.role_permissions, x, {}) : x \in ReachableFrom(m, {r})}

C16_OrderIndependent ==
    Terminated =>
        \A o \in IterationOrders(rbac.roles) :
            LET other == compile_permissions(
                            RBACManager(rbac.roles, rbac.role_inheritance,
                                        rbac.role_permissions, o))
            IN  /\ other.pc = rbac.pc
                /\ rbac.pc = "compiled" =>
                      \A r \in rbac.roles :
                          Get(other.compiled, r, {}) = Get(rbac.compiled, r, {})

\* --------------------------------------------------------------- C17
\* what one step of the compilation does: a test of the while loop ends the
\* compilation when the last pass produced no growth, raises when the limit
\* of passes is used up, and starts the next pass otherwise; a visit of a
\* role only grows the sets and records whether one grew
C17_Step ==
    /\ (rbac.pc = "compiling" /\ rbac.index = 0 /\ ~rbac.mutated)
          => (rbac'.pc = "compiled" /\ rbac'.compiled = rbac.compiled)
    /\ (rbac.pc = "compiling" /\ rbac.index = 0 /\ rbac.mutated
            /\ rbac.iteration_count >= MaxIteration)
          => (rbac'.pc = "rbac_error" /\ rbac'.compiled = rbac.compiled)
    /\ (rbac.pc = "compiling" /\ rbac.index = 0 /\ rbac.mutated
            /\ rbac.iteration_count < MaxIteration)
          => /\ rbac'.pc = "compiling"
             /\ rbac'.iteration_count = rbac.iteration_count + 1
             /\ rbac'.compiled = rbac.compiled
             /\ ~rbac'.mutated
    /\ (rbac.pc = "compiling" /\ rbac.index > 0)
          => /\ rbac'.pc = "compiling"
             /\ rbac'.iteration_count = rbac.iteration_count
             /\ rbac'.index \in {0, rbac.index + 1}
             /\ \A r \in rbac.roles :
                   Get(rbac.compiled, r, {}) \subseteq Get(rbac'.compiled, r, {})
             /\ rbac'.mutated <=>
                   \/ rbac.mutated
                   \/ \E r \in rbac.roles :
                         Get(rbac'.compiled, r, {}) # Get(rbac.compiled, r, {})
    /\ Terminated => rbac' = rbac

\* C17: the compilation of every role graph terminates.  It ends compiled at
\* the first pass that produces no growth; a pass runs only within the limit
\* of 50 passes, and when the 50th pass still produced growth the compilation
\* ends with the RBAC compile error.
C17_CompileTerminates ==
    /\ <>Terminated
    /\ [](rbac.iteration_count <= MaxIteration + 1)
    /\ [][C17_Step]_vars

\* the compilation of the long chain ended with the compile error
C17_Witness ==
    /\ rbac.pc = "rbac_error"
    /\ rbac.iteration_count = MaxIteration + 1

\* --------------------------------------------------------------- C18
\* C18: a graph whose inheritance map or permission map refers to an
\* undeclared role is never compiled: its compilation fails.
C18_UndeclaredRejected ==
    rbac.pc = "compiled" => WellFormed(rbac)

\* --------------------------------------------------------------- C19
\* some single role of the role set has a closure that covers the required set
Authorized(role_set, required) ==
    \E r \in role_set : required \subseteq ClosedPermissions(rbac, r)

\* C19: a permission check succeeds if and only if some single role of the
\* actor has a compiled closure that is a superset of the required set,
\* whatever the order in which the roles are examined.
C19_AuthorizePerRole ==
    response.op = "check_user_permission" =>
        (response.err = OK <=> Authorized(response.role_set, response.required))

\* an actor with role 1 (closure {1}) and role 2 (closure {2}) was denied
\* {1, 2}
C19_Witness ==
    /\ response.op = "check_user_permission"
    /\ response.role_set = {1, 2} /\ response.required = {1, 2}
    /\ ClosedPermissions(rbac, 1) = {1} /\ ClosedPermissions(rbac, 2) = {2}
    /\ response.err = "permission_required"

\* --------------------------------------------------------------- C20
\* C20: the non-raising check never raises and returns true exactly when the
\* actor is authorized, which is when the raising check returns true; the
\* raising check otherwise raises the permission error, which carries the
\* role set examined and the required set.
C20_NonRaisingCheck ==
    response.op = "check_permission" =>
        LET authorized == Authorized(response.role_set, response.required)
        IN  /\ ~response.raise_on_fail =>
                  (response.err = OK /\ response.ret = authorized)
            /\ response.raise_on_fail =>
                  IF authorized THEN response.err = OK /\ response.ret
                  ELSE /\ response.err = "permission_required"
                       /\ response.roles = response.role_set
                       /\ response.permissions = response.required

\* the non-raising check answered false for an actor the raising check refuses
C20_Witness ==
    /\ response.op = "check_permission" /\ ~response.raise_on_fail
    /\ response.role_set # {} /\ response.required # {}
    /\ ~Authorized(response.role_set, response.required)
    /\ response.err = OK /\ ~response.ret

\* --------------------------------------------------------------- C25
\* the error the order of precedence gives a start by user on item_id
StartPrecedence(user, item_id) ==
    CASE item_state[item_id] # "valid" -> "invalid_item"
      [] item_state[item_id] = "valid" /\ ItemHasProcessing(item_id)
            -> "processing_transaction_exists"
      [] ItemEligible(item_id) /\ contact_count[user] = 0 -> "no_valid_contact_info"
      [] ItemEligible(item_id) /\ contact_count[user] > 0
            /\ ProcessingCount(user) >= MAX_TRANSACTION_PER_BUYER
            -> "processing_transaction_limit_exceeded"
      [] ItemEligible(item_id) /\ BuyerEligible(user) /\ user = ItemSeller(item_id)
            -> "identical_seller_buyer"
      [] ItemEligible(item_id) /\ BuyerEligible(user) /\ user # ItemSeller(item_id)
            /\ HasTradeIn(user, item_id, {"pending", "processing"})
            -> "duplicated_transaction"
      [] OTHER -> OK

C28_BuyerCeiling ==
    \A u \in UserIds : ProcessingCount(u) <= MAX_TRANSACTION_PER_BUYER

\* --------------------------------------------------------------- C29
\* C29: cancelled is absorbing: no step changes the state or the stored
\* cancel_reason of a trade that is in state cancelled.
C29_CancelledAbsorbing ==
    [][\A t \in TradeIds :
          trades[t].state = "cancelled" =>
             /\ trades'[t].state = "cancelled"
             /\ trades'[t].cancel_reason = trades[t].cancel_reason]_vars

\* ------------------------------------------------ claims: CallbackManager
\* the dict of the signal, empty when callbacks has none
DictOf(c, sg) == IF sg \in DOMAIN c.callbacks THEN c.callbacks[sg] ELSE <<>>
\* the callbacks of the signal started and ended so far, in order
EventsOf(c, sg) == SelectSeq(c.events, LAMBDA e : e[2] = sg)
\* each callback of the signal started and ended in the order of the dict
Expected(c, sg) ==
    [j \in 1..(2 * Len(DictOf(c, sg))) |->
        <<IF j % 2 = 1 THEN "start" ELSE "end", sg, DictOf(c, sg)[(j + 1) \div 2].key>>]
IsPrefix(s, t) == Len(s) <= Len(t) /\ \A j \in 1..Len(s) : s[j] = t[j]
\* the callbacks of the signal that have ended
Ended(c, sg) ==
    {i \in 1..Len(DictOf(c, sg)) :
        \E j \in 1..Len(c.events) : c.events[j] = <<"end", sg, DictOf(c, sg)[i].key>>}
\* the callbacks of the signal that returned False
Vetoed(c, sg) == {i \in Ended(c, sg) : Result(DictOf(c, sg)[i].fn) = "False"}
\* the callbacks of the signal that raised
Failed(c, sg) == {i \in Ended(c, sg) : Result(DictOf(c, sg)[i].fn) = "raise"}
TriggerDone(c) == c.op \in {"trigger", "send"} /\ c.tpc = "done"

\* C21: trigger(signal) starts the callbacks of the signal one at a time in
\* the order they were registered in, each only after the one before it,
\* synchronous or asynchronous, has ended: the starts and ends recorded for a
\* signal are always a prefix of start k1, end k1, start k2, end k2, ... over
\* the dict of the signal, the whole of it when trigger returns or raises the
\* interruption on a manager that is not disabled; and add puts a new key
\* after the keys the dict holds and leaves their order alone.
C21_Order ==
    /\ \A sg \in Signals : IsPrefix(EventsOf(cb, sg), Expected(cb, sg))
    /\ (TriggerDone(cb) /\ ~cb.disabled /\ cb.terr \in {OK, "callback_interrupted"})
          => EventsOf(cb, cb.signal) = Expected(cb, cb.signal)
C21_Registration ==
    \A signal \in Signals, fn \in Handlers, key \in Keys \cup {None} :
        (Add(signal, fn, key) /\ signal \in DOMAIN cb.callbacks)
           => LET old == cb.callbacks[signal]
                  new == cb'.callbacks[signal]
              IN  /\ \A i \in DOMAIN old : new[i].key = old[i].key
                  /\ ~HasKey(old, KeyOf(fn, key))
                        => new = Append(old, [key |-> KeyOf(fn, key), fn |-> fn])
C21_InOrderOneAtATime == []C21_Order /\ [][C21_Registration]_vars
\* trigger has run an asynchronous callback and then a synchronous one
C21_Witness ==
    /\ cb.op = "trigger" /\ cb.tpc = "done" /\ cb.signal = "upon"
    /\ Len(DictOf(cb, "upon")) = 2
    /\ IsAsync(DictOf(cb, "upon")[1].fn) /\ ~IsAsync(DictOf(cb, "upon")[2].fn)
    /\ Len(cb.events) = 4

C27_AddStores ==
    [][\A signal \in Signals, fn \in Handlers, key \in Keys \cup {None} :
          Add(signal, fn, key)
             => /\ cb'.err = OK
                /\ \E i \in DOMAIN DictOf(cb', signal) :
                      DictOf(cb', signal)[i] = [key |-> KeyOf(fn, key), fn |-> fn]]_vars

\* C30: trigger(signal) with no callback registered for the signal calls
\* nothing and returns without raising.
C30_EmptyCheckpoint ==
    (TriggerDone(cb) /\ DictOf(cb, cb.signal) = <<>>)
        => cb.terr = OK /\ EventsOf(cb, cb.signal) = <<>>

\* ---------------------------------------------- claims: NotificationSender
SendStages == <<"before", "check", "upon", "commit", "after">>
SendDone(c) == c.op = "send" /\ c.returned # "none"
StageIndex(sg) == CASE sg = "before" -> 1 [] sg = "upon" -> 2 [] OTHER -> 3

C26_StageOrder ==
    cb.op = "send" =>
        /\ IsPrefix(cb.stages, SendStages)
        /\ cb.returned = "notification" => cb.stages = SendStages
        /\ EventsOf(cb, "upon") # <<>>
              => /\ Vetoed(cb, "before") = {}
                 /\ check_validity(cb.curr) = OK
        /\ EventsOf(cb, "after") # <<>> => cb.committed
        /\ \A i, j \in 1..Len(cb.events) :
              i < j => StageIndex(cb.events[i][2]) <= StageIndex(cb.events[j][2])
\* a send that ran a before, an upon callback and succeeded
C26_Witness ==
    /\ SendDone(cb) /\ cb.returned = "notification" /\ cb.committed
    /\ EventsOf(cb, "before") # <<>> /\ EventsOf(cb, "upon") # <<>>

====
